---- MODULE Spec2Model ----
(***************************************************************************)
(* PhantomPad: confidential crowdfunding.                                  *)
(*                                                                         *)
(* The model follows contracts/PhantomPad.sol (src/unnamed/part_001): the  *)
(* campaign registry, the ERC7984 receiver callback and the settlement.    *)
(* The confidential token (ConfidentialUSDC) is a collaborator whose code  *)
(* is not part of the sources; its three entry points are modelled from    *)
(* the specification's description of the ledger.                          *)
(*                                                                         *)
(* A ciphertext is a record [id, val]: id is the handle (an opaque         *)
(* reference computed by the co-processor from the operation and its       *)
(* operands, written here in prefix form), val the plaintext it encrypts.  *)
(* The engine never reads val; only the claims (the off-chain decrypt      *)
(* path) do.                                                               *)
(***************************************************************************)
EXTENDS Integers, Sequences, FiniteSets, TLC

----------------------------------------------------------------------------
(* Bounds of the model *)

\* length the notification log may reach: the number of successful mutating calls
MaxEvents == 3
\* block.timestamp ranges over 0..MaxTime
MaxTime == 2
\* largest value of the (scaled-down) unsigned 64-bit domain
Uint64Max == 7
\* largest plaintext amount a caller submits
MaxAmount == 1
\* what the funded user holds after the mints that precede the campaigns
MaxBalance == 2

----------------------------------------------------------------------------
(* Accounts *)

ZeroAddress == "0x0"
Token == "cUSDC"
Pad == "PhantomPad"
Users == {"alice", "bob"}
Holders == Users \cup {Pad}

\* the keys of the campaign mapping the model holds: 0 (reserved), every id the
\* log bound lets createCampaign allocate, and one beyond
Ids == 0 .. (MaxEvents + 1)
Amounts == 1 .. MaxAmount
Names == {"", "Test Launch"}
\* attached data: the abi-encoding of an id, or BadData (shorter than a word)
BadData == -1
Datas == Ids \cup {BadData}


Modulus == Uint64Max + 1

----------------------------------------------------------------------------
(* Ciphertext primitives (FHE library as used by the contract) *)

\* the default euint64 (bytes32(0)): no handle
NoHandle == [id |-> <<>>, val |-> 0]

FHE_isInitialized(x) == x.id # <<>>

\* trivial encryption of a plaintext
FHE_asEuint64(v) == [id |-> <<0, v>>, val |-> v % Modulus]

\* an addition that keeps its first operand when the sum overflows
FHE_add_KeepOnOverflow(a, b) ==
    [id |-> <<2>> \o a.id \o b.id,
     val |-> IF a.val + b.val > Uint64Max THEN a.val ELSE a.val + b.val]

\* homomorphic addition over the 64-bit domain
FHE_add(a, b) == [id |-> <<2>> \o a.id \o b.id, val |-> (a.val + b.val) % Modulus]

\* a ciphertext the ledger derives from an encrypted input
LedgerInput(k, v) == [id |-> <<1, k>>, val |-> v]

\* the ciphertext the ledger returns from a transfer of `amount`
LedgerTransferred(amount, v) == [id |-> <<3>> \o amount.id, val |-> v]

----------------------------------------------------------------------------
(* State *)

VARIABLES
    campaignCount,   \* uint256 public campaignCount
    campaigns,       \* mapping(uint256 => Campaign) _campaigns
    contributions,   \* mapping(uint256 => mapping(address => euint64)) _contributions
    acl,             \* decrypt grants: set of <<handle, viewer>>
    events,          \* the emitted notifications, in commit order
    balances,        \* the ledger's plaintext view of each holder's balance
    nextInput,       \* the next fresh input handle of the ledger
    now,             \* block.timestamp
    raw,             \* the text of the client's amount field
    lastCall         \* the outcome of the latest transaction

engine == <<campaignCount, campaigns, contributions, acl, events>>
vars == <<campaignCount, campaigns, contributions, acl, events, balances, nextInput, now,
          raw, lastCall>>

NoCampaign ==
    [name |-> "", target |-> NoHandle, totalRaised |-> NoHandle,
     deadline |-> 0, creator |-> ZeroAddress, ended |-> FALSE]

NoError == "ok"

\* the ids callers pass: 0, every allocated id, and the first id not allocated
TriedIds == 0 .. (campaignCount + 1)
TriedDatas == TriedIds \cup {BadData}

\* the balances after the mints that precede the campaigns: one funded user, one
\* without funds; the ledger keeps the total supply within the 64-bit domain
InitialBalance(h) ==
    IF h = "alice" THEN (IF MaxBalance <= Uint64Max THEN MaxBalance ELSE Uint64Max)
    ELSE 0

NoCall == "none"

\* the entry point called, its revert reason (NoError when it returned) and what
\* it returned
\* `inner` is the outcome of a call made back into the contract while the
\* transaction ran (NoCall when there was none)
Call(op, err, retId, retHandle) ==
    [op |-> op, err |-> err, retId |-> retId, retHandle |-> retHandle,
     inner |-> NoCall]

Event(kind, id, name, target, deadline, account, handle) ==
    [kind |-> kind, campaignId |-> id, name |-> name, target |-> target,
     deadline |-> deadline, account |-> account, handle |-> handle]

\* a log that keeps only its latest notification
Emit_Replacing(e) == <<e>>

\* emit: the notification is appended to the log of the committed transaction
Emit(e) == Append(events, e)

\* the state after deployment
Deployed ==
    /\ campaignCount = 0
    /\ campaigns = [i \in Ids |-> NoCampaign]
    /\ contributions = [i \in Ids |-> [u \in Users |-> NoHandle]]
    /\ acl = {}
    /\ events = <<>>
    /\ balances = [h \in Holders |-> InitialBalance(h)]
    /\ nextInput = 1
    /\ now = 0
    /\ lastCall = Call("constructor", NoError, 0, NoHandle)

\* useState(''): the amount field starts empty
Init ==
    /\ Deployed
    /\ raw = <<>>

----------------------------------------------------------------------------
(* PhantomPad.createCampaign *)

Targets == {0, MaxAmount}
\* a deadline already reached, or one still ahead
Deadlines == {now, now + 1}

\* a deadline check that lets the present moment through
createCampaignRevert_PresentDeadline(name, target, deadline) ==
    IF ~(name # "") THEN "Name required"
    ELSE IF ~(target > 0) THEN "Target required"
    ELSE IF ~(deadline >= now) THEN "Deadline must be in the future"
    ELSE NoError

\* the three require statements, in source order
createCampaignRevert(name, target, deadline) ==
    IF ~(name # "") THEN "Name required"
    ELSE IF ~(target > 0) THEN "Target required"
    ELSE IF ~(deadline > now) THEN "Deadline must be in the future"
    ELSE NoError

\* a grant to the engine only
AllowThisAnd_OnlyThis(h, who) == {<<h.id, Pad>>}

\* FHE.allowThis(h); FHE.allow(h, who)
AllowThisAnd(h, who) == {<<h.id, Pad>>, <<h.id, who>>}

\* the record createCampaign stores under the new id
NewCampaign(sender, name, target, deadline) ==
    [name |-> name, target |-> FHE_asEuint64(target),
     totalRaised |-> FHE_asEuint64(0), deadline |-> deadline,
     creator |-> sender, ended |-> FALSE]

\* the value of campaignCount++
NextCampaignId_PostIncrement == campaignCount

\* an id that stops advancing once a campaign exists
NextCampaignId_Reused == IF campaignCount = 0 THEN 1 ELSE campaignCount

\* the value of ++campaignCount
NextCampaignId == campaignCount + 1

createCampaign(sender, name, target, deadline) ==
    LET campaignId == NextCampaignId
        campaign == NewCampaign(sender, name, target, deadline)
    IN  /\ campaignCount' = campaignCount + 1
        /\ campaigns' = [campaigns EXCEPT ![campaignId] = campaign]
        /\ acl' = acl \cup AllowThisAnd(campaign.target, sender)
                      \cup AllowThisAnd(campaign.totalRaised, sender)
        /\ events' = Emit(
               Event("CampaignCreated", campaignId, name, target, deadline, sender, NoHandle))
        /\ UNCHANGED contributions

CreateCampaign ==
    \E sender \in Users, name \in Names, target \in Targets, deadline \in Deadlines :
        LET err == createCampaignRevert(name, target, deadline)
        IN  /\ IF err # NoError
               THEN /\ UNCHANGED engine
                    /\ lastCall' = Call("createCampaign", err, 0, NoHandle)
               ELSE /\ Len(events) < MaxEvents
                    /\ createCampaign(sender, name, target, deadline)
                    /\ lastCall' = Call("createCampaign", NoError, NextCampaignId, NoHandle)
            /\ UNCHANGED <<balances, nextInput, now, raw>>

----------------------------------------------------------------------------
(* PhantomPad.onConfidentialTransferReceived *)

\* FHE.asEbool(true)
FHE_asEbool(b) == [id |-> <<4, IF b THEN 1 ELSE 0>>, val |-> IF b THEN 1 ELSE 0]

\* a callback that trusts every caller
IsPaymentToken_Any(sender) == TRUE

\* require(msg.sender == address(paymentToken))
IsPaymentToken(sender) == sender = Token

\* a deadline check that closes the campaign one tick early
BeforeDeadline_Strict(campaign) == now < campaign.deadline

\* require(block.timestamp <= campaign.deadline)
BeforeDeadline(campaign) == now <= campaign.deadline

\* the callback without require(!campaign.ended)
onConfidentialTransferReceivedRevert_NoEndedCheck(sender, data) ==
    IF ~IsPaymentToken(sender) THEN "Unsupported token"
    ELSE IF data = BadData THEN "abi.decode"
    ELSE IF ~(campaigns[data].creator # ZeroAddress) THEN "Campaign not found"
    ELSE IF ~BeforeDeadline(campaigns[data]) THEN "Campaign expired"
    ELSE NoError

\* the callback without require(campaign.creator != address(0))
onConfidentialTransferReceivedRevert_NoExistenceCheck(sender, data) ==
    IF ~IsPaymentToken(sender) THEN "Unsupported token"
    ELSE IF data = BadData THEN "abi.decode"
    ELSE IF ~(~campaigns[data].ended) THEN "Campaign already ended"
    ELSE IF ~BeforeDeadline(campaigns[data]) THEN "Campaign expired"
    ELSE NoError

\* the callback with its deadline check put before its ended check
onConfidentialTransferReceivedRevert_DeadlineFirst(sender, data) ==
    IF ~IsPaymentToken(sender) THEN "Unsupported token"
    ELSE IF data = BadData THEN "abi.decode"
    ELSE IF ~(campaigns[data].creator # ZeroAddress) THEN "Campaign not found"
    ELSE IF ~BeforeDeadline(campaigns[data]) THEN "Campaign expired"
    ELSE IF ~(~campaigns[data].ended) THEN "Campaign already ended"
    ELSE NoError

\* the require statements and the abi.decode, in source order
onConfidentialTransferReceivedRevert(sender, data) ==
    IF ~IsPaymentToken(sender) THEN "Unsupported token"
    ELSE IF data = BadData THEN "abi.decode"
    ELSE IF ~(campaigns[data].creator # ZeroAddress) THEN "Campaign not found"
    ELSE IF ~(~campaigns[data].ended) THEN "Campaign already ended"
    ELSE IF ~BeforeDeadline(campaigns[data]) THEN "Campaign expired"
    ELSE NoError

\* a total that is overwritten instead of accumulated
UpdatedTotal_Overwrite(campaign, amount) == amount

\* a total that counts the contribution twice
UpdatedTotal_CountedTwice(campaign, amount) ==
    FHE_add(FHE_add(campaign.totalRaised, amount), amount)

\* euint64 updatedTotal = FHE.add(campaign.totalRaised, amount)
UpdatedTotal(campaign, amount) == FHE_add(campaign.totalRaised, amount)

\* an entry that is read as zero whatever it holds
CurrentContribution_Forgets(campaignId, from) == FHE_asEuint64(0)

\* the contributor's entry, an uninitialized entry read as an encrypted zero
CurrentContribution(campaignId, from) ==
    IF ~FHE_isInitialized(contributions[campaignId][from])
    THEN FHE_asEuint64(0)
    ELSE contributions[campaignId][from]

\* an entry that accumulates onto the campaign's total instead of itself
UpdatedContribution_OntoTotal(campaignId, from, amount) ==
    FHE_add(campaigns[campaignId].totalRaised, amount)

\* euint64 updatedContribution = FHE.add(currentContribution, amount)
UpdatedContribution(campaignId, from, amount) ==
    FHE_add(CurrentContribution(campaignId, from), amount)

\* the contributor is left without access to the new total
AllowContributor_Omitted(h, from) == {}

\* FHE.allow(updatedTotal, from)
AllowContributor(h, from) == {<<h.id, from>>}

\* entries kept per account only, whatever the campaign
StoredContribution_KeyedByAccount(campaignId, from, entry) ==
    [id \in Ids |-> [contributions[id] EXCEPT ![from] = entry]]

\* _contributions[campaignId][from] = updatedContribution
StoredContribution(campaignId, from, entry) ==
    [contributions EXCEPT ![campaignId][from] = entry]

\* an entry that every account may decrypt
AllowEntry_Public(h, from) == {<<h.id, viewer>> : viewer \in Holders}

\* FHE.allowThis(updatedContribution); FHE.allow(updatedContribution, from)
AllowEntry(h, from) == AllowThisAnd(h, from)

\* a callback that answers with an encrypted false
AcceptedFlag_False == FHE_asEbool(FALSE)

\* ebool accepted = FHE.asEbool(true)
AcceptedFlag == FHE_asEbool(TRUE)

onConfidentialTransferReceived(sender, from, amount, campaignId) ==
    LET campaign == campaigns[campaignId]
        updatedTotal == UpdatedTotal(campaign, amount)
        updatedContribution == UpdatedContribution(campaignId, from, amount)
        accepted == AcceptedFlag
    IN  /\ campaigns' = [campaigns EXCEPT ![campaignId].totalRaised = updatedTotal]
        /\ contributions' = StoredContribution(campaignId, from, updatedContribution)
        /\ acl' = acl \cup AllowThisAnd(updatedTotal, campaign.creator)
                      \cup AllowContributor(updatedTotal, from)
                      \cup AllowEntry(updatedContribution, from)
                      \cup AllowThisAnd(accepted, sender)
        /\ events' = Emit(
               Event("Contributed", campaignId, "", 0, 0, from, amount))
        /\ UNCHANGED campaignCount

\* a call of the callback by an account that is not the ledger
DirectCallback ==
    \E sender \in Users, data \in TriedDatas :
        LET err == onConfidentialTransferReceivedRevert(sender, data)
        IN  /\ IF err # NoError
               THEN /\ UNCHANGED engine
                    /\ lastCall' = Call("onConfidentialTransferReceived", err, 0, NoHandle)
               ELSE \E from \in Users, v \in Amounts :
                    /\ onConfidentialTransferReceived(sender, from, LedgerInput(0, v), data)
                    /\ lastCall' = Call("onConfidentialTransferReceived", NoError, 0,
                                        AcceptedFlag)
            /\ UNCHANGED <<balances, nextInput, now, raw>>

----------------------------------------------------------------------------
(* The confidential token: transfer-and-call and transfer *)

\* a transfer of more than the sender's balance moves nothing
Transferred(from, v) == IF balances[from] >= v THEN v ELSE 0

Move(from, to, v) ==
    IF from = to THEN balances
    ELSE [balances EXCEPT ![from] = @ - v, ![to] = @ + v]

\* the ledger moves what it can of v to the contract and the callback accepts it
AcceptedTransfer(from, data, v) ==
    LET amount == LedgerInput(nextInput, Transferred(from, v))
    IN  /\ Len(events) < MaxEvents
        /\ onConfidentialTransferReceived(Token, from, amount, data)
        /\ balances' = Move(from, Pad, amount.val)
        /\ nextInput' = nextInput + 1
        /\ lastCall' = Call("confidentialTransferAndCall", NoError, 0, AcceptedFlag)

\* confidentialTransferAndCall(PhantomPad, encrypted v, proof, data) sent by `from`
ConfidentialTransferAndCall ==
    \E from \in Users, data \in TriedDatas :
        LET err == onConfidentialTransferReceivedRevert(Token, data)
        IN  /\ IF err # NoError
               THEN /\ UNCHANGED <<engine, balances, nextInput>>
                    /\ lastCall' = Call("confidentialTransferAndCall", err, 0, NoHandle)
               ELSE \E v \in Amounts : AcceptedTransfer(from, data, v)
            /\ UNCHANGED <<now, raw>>

----------------------------------------------------------------------------
(* PhantomPad.endCampaign *)

\* require(msg.sender == campaign.creator)
IsCreator(sender, campaign) == sender = campaign.creator

\* endCampaign without require(!campaign.ended)
endCampaignRevert_NoEndedCheck(sender, campaignId) ==
    IF ~(campaigns[campaignId].creator # ZeroAddress) THEN "Campaign not found"
    ELSE IF ~IsCreator(sender, campaigns[campaignId]) THEN "Only creator"
    ELSE NoError

\* endCampaign without require(msg.sender == campaign.creator)
endCampaignRevert_NoCreatorCheck(sender, campaignId) ==
    IF ~(campaigns[campaignId].creator # ZeroAddress) THEN "Campaign not found"
    ELSE IF ~(~campaigns[campaignId].ended) THEN "Campaign already ended"
    ELSE NoError

\* endCampaign that waits for the deadline to pass
endCampaignRevert_DeadlineGated(sender, campaignId) ==
    IF ~(campaigns[campaignId].creator # ZeroAddress) THEN "Campaign not found"
    ELSE IF ~IsCreator(sender, campaigns[campaignId]) THEN "Only creator"
    ELSE IF ~(~campaigns[campaignId].ended) THEN "Campaign already ended"
    ELSE IF ~(now > campaigns[campaignId].deadline) THEN "Campaign still running"
    ELSE NoError

\* the three require statements, in source order
endCampaignRevert(sender, campaignId) ==
    IF ~(campaigns[campaignId].creator # ZeroAddress) THEN "Campaign not found"
    ELSE IF ~IsCreator(sender, campaigns[campaignId]) THEN "Only creator"
    ELSE IF ~(~campaigns[campaignId].ended) THEN "Campaign already ended"
    ELSE NoError

\* a settlement that deletes the campaign
Settled_Deleted(campaign) == NoCampaign

\* a settlement that also closes the funding window
Settled_ClosesDeadline(campaign) ==
    [campaign EXCEPT !.ended = TRUE, !.totalRaised = FHE_asEuint64(0),
                     !.deadline = now]

\* a settlement that leaves the total in place
Settled_KeepsTotal(campaign) == [campaign EXCEPT !.ended = TRUE]

\* campaign.ended = true; campaign.totalRaised = FHE.asEuint64(0)
Settled(campaign) == [campaign EXCEPT !.ended = TRUE, !.totalRaised = FHE_asEuint64(0)]

\* a payout read after the total was reset
Payout_AfterReset(campaign) == FHE_asEuint64(0)

\* payout = campaign.totalRaised
Payout(campaign) == campaign.totalRaised

\* a permission table whose entry for the payout handle is overwritten
AclAfterPayoutGrant_Overwritten(payout, sender) ==
    {g \in acl : g[1] # payout.id} \cup AllowThisAnd(payout, sender)

\* FHE.allowThis(payout); FHE.allow(payout, msg.sender)
AclAfterPayoutGrant(payout, sender) == acl \cup AllowThisAnd(payout, sender)

\* a payout record that keeps the snapshot taken before the transfer
EmittedPayout_Snapshot(payout, transferred) == payout

\* payout = paymentToken.confidentialTransfer(msg.sender, payout): the payout
\* returned and emitted is what the ledger's call returned
EmittedPayout(payout, transferred) == transferred

endCampaign(sender, campaignId) ==
    LET campaign == campaigns[campaignId]
        payout == Payout(campaign)
        sent == Transferred(Pad, payout.val)
        returned == EmittedPayout(payout, LedgerTransferred(payout, sent))
    IN  /\ campaigns' = [campaigns EXCEPT ![campaignId] = Settled(campaign)]
        /\ acl' = AclAfterPayoutGrant(payout, sender)
        /\ balances' = Move(Pad, sender, sent)
        /\ events' = Emit(
               Event("CampaignEnded", campaignId, "", 0, 0, sender, returned))
        /\ UNCHANGED <<campaignCount, contributions>>

EndCampaign ==
    \E sender \in Users, campaignId \in TriedIds :
        LET err == endCampaignRevert(sender, campaignId)
        IN  /\ IF err # NoError
               THEN /\ UNCHANGED <<engine, balances>>
                    /\ lastCall' = Call("endCampaign", err, 0, NoHandle)
               ELSE /\ Len(events) < MaxEvents
                    /\ endCampaign(sender, campaignId)
                    /\ lastCall' = Call("endCampaign", NoError, 0,
                                        events'[Len(events')].handle)
            /\ UNCHANGED <<nextInput, now, raw>>

----------------------------------------------------------------------------
(* PhantomPad.isCampaignActive *)

\* a view that forgets the ended flag
isCampaignActive_IgnoresEnded(campaignId) ==
    /\ campaigns[campaignId].creator # ZeroAddress
    /\ now <= campaigns[campaignId].deadline

\* a view that closes the campaign at its deadline, not after it
isCampaignActive_StrictDeadline(campaignId) ==
    /\ campaigns[campaignId].creator # ZeroAddress
    /\ ~campaigns[campaignId].ended
    /\ now < campaigns[campaignId].deadline

isCampaignActive(campaignId) ==
    /\ campaigns[campaignId].creator # ZeroAddress
    /\ ~campaigns[campaignId].ended
    /\ now <= campaigns[campaignId].deadline

----------------------------------------------------------------------------
(* Time *)

Tick ==
    /\ now < MaxTime
    /\ now' = now + 1
    /\ lastCall' = Call("tick", NoError, 0, NoHandle)
    /\ UNCHANGED <<engine, balances, nextInput, raw>>

Next ==
    \/ CreateCampaign
    \/ DirectCallback
    \/ ConfidentialTransferAndCall
    \/ EndCampaign
    \/ Tick

Spec == Init /\ [][Next]_vars

----------------------------------------------------------------------------
(* A ledger whose supply is the largest 64-bit value *)

\* the whole supply is minted: all of it but one unit to one user, one unit to
\* the other
FullSupply(h) ==
    IF h = "alice" THEN Uint64Max - 1 ELSE IF h = "bob" THEN 1 ELSE 0

InitFullSupply ==
    /\ campaignCount = 0
    /\ campaigns = [i \in Ids |-> NoCampaign]
    /\ contributions = [i \in Ids |-> [u \in Users |-> NoHandle]]
    /\ acl = {}
    /\ events = <<>>
    /\ balances = [h \in Holders |-> FullSupply(h)]
    /\ nextInput = 1
    /\ now = 0
    /\ raw = <<>>
    /\ lastCall = Call("constructor", NoError, 0, NoHandle)

\* confidentialTransferAndCall of everything the sender holds (the smaller
\* amounts are those of ConfidentialTransferAndCall)
TransferWholeBalance ==
    \E from \in Users, data \in TriedDatas :
        /\ onConfidentialTransferReceivedRevert(Token, data) = NoError
        /\ balances[from] > MaxAmount
        /\ AcceptedTransfer(from, data, balances[from])
        /\ UNCHANGED <<now, raw>>

NextFullSupply ==
    \/ Next
    \/ TransferWholeBalance

SpecFullSupply == InitFullSupply /\ [][NextFullSupply]_vars

----------------------------------------------------------------------------
(* PhantomPad's views *)

\* getCampaign: the fields of _campaigns[campaignId], the default record for an
\* id that was never written; it has no require
getCampaign(campaignId) == campaigns[campaignId]

\* a view that answers an encrypted zero for a missing entry
contributionOf_ZeroForMissing(campaignId, user) ==
    IF FHE_isInitialized(contributions[campaignId][user])
    THEN contributions[campaignId][user] ELSE FHE_asEuint64(0)

\* contributionOf: return _contributions[campaignId][user]
contributionOf(campaignId, user) == contributions[campaignId][user]

\* treasuryBalance: what the ledger holds for the contract
treasuryBalance == balances[Pad]

\* the views are calls that return and leave the chain as it is; what they
\* return for each argument is given by the operators above
GetCampaign ==
    /\ lastCall' = Call("getCampaign", NoError, 0, NoHandle)
    /\ UNCHANGED <<engine, balances, nextInput, now, raw>>

ContributionOf ==
    /\ lastCall' = Call("contributionOf", NoError, 0, NoHandle)
    /\ UNCHANGED <<engine, balances, nextInput, now, raw>>

IsCampaignActive ==
    /\ lastCall' = Call("isCampaignActive", NoError, 0, NoHandle)
    /\ UNCHANGED <<engine, balances, nextInput, now, raw>>

TreasuryBalance ==
    /\ lastCall' = Call("treasuryBalance", NoError, 0, NoHandle)
    /\ UNCHANGED <<engine, balances, nextInput, now, raw>>

NextWithViews ==
    \/ Next
    \/ GetCampaign
    \/ ContributionOf
    \/ IsCampaignActive
    \/ TreasuryBalance

SpecWithViews == Init /\ [][NextWithViews]_vars

----------------------------------------------------------------------------
(* The client: PhantomPadApp.parseUint64 *)

\* the longest text typed into the amount field
MaxRawLen == 3

\* characters of the field: decimal digits, white space, anything else
DigitChars == {"0", "1", "7", "8"}
SpaceChars == {" "}
Chars == DigitChars \cup SpaceChars \cup {"x"}

RawInputs == UNION {[1..n -> Chars] : n \in 0..MaxRawLen}

\* const UINT64_MAX = 2n ** 64n - 1n
UINT64_MAX == Uint64Max

\* String.prototype.trim: white space is dropped from both ends
RECURSIVE TrimStart(_)
TrimStart(s) ==
    IF Len(s) > 0 /\ s[1] \in SpaceChars THEN TrimStart(Tail(s)) ELSE s

RECURSIVE TrimEnd(_)
TrimEnd(s) ==
    IF Len(s) > 0 /\ s[Len(s)] \in SpaceChars
    THEN TrimEnd(SubSeq(s, 1, Len(s) - 1)) ELSE s

Trim(s) == TrimEnd(TrimStart(s))

\* /^\d+$/.test(cleaned)
IsDigitString(s) == Len(s) > 0 /\ \A i \in 1..Len(s) : s[i] \in DigitChars

DigitValue(c) ==
    CASE c = "0" -> 0 [] c = "1" -> 1 [] c = "7" -> 7 [] c = "8" -> 8

\* BigInt(cleaned) of a string of decimal digits, read left to right
RECURSIVE BigInt(_)
BigInt(s) ==
    IF Len(s) = 0 THEN 0
    ELSE 10 * BigInt(SubSeq(s, 1, Len(s) - 1)) + DigitValue(s[Len(s)])

Thrown(message) == [err |-> message, value |-> 0]

\* a parser whose lower check lets zero through
parseUint64_AcceptsZero(text) ==
    LET cleaned == Trim(text)
    IN  IF ~IsDigitString(cleaned) THEN Thrown("Enter a whole number amount.")
        ELSE LET value == BigInt(cleaned)
             IN  IF value < 0 THEN Thrown("Amount must be greater than zero.")
                 ELSE IF value > UINT64_MAX THEN Thrown("Amount exceeds uint64 range.")
                 ELSE [err |-> NoError, value |-> value]

parseUint64(text) ==
    LET cleaned == Trim(text)
    IN  IF ~IsDigitString(cleaned) THEN Thrown("Enter a whole number amount.")
        ELSE LET value == BigInt(cleaned)
             IN  IF value <= 0 THEN Thrown("Amount must be greater than zero.")
                 ELSE IF value > UINT64_MAX THEN Thrown("Amount exceeds uint64 range.")
                 ELSE [err |-> NoError, value |-> value]

\* the amount field holds some text when the form is submitted
InitTyped ==
    /\ Deployed
    /\ raw \in RawInputs

\* const amount = parseUint64(...)
ParseUint64 ==
    /\ lastCall' = Call("parseUint64", parseUint64(raw).err,
                        parseUint64(raw).value, NoHandle)
    /\ UNCHANGED <<engine, balances, nextInput, now, raw>>

NextClient == ParseUint64

SpecClient == InitTyped /\ [][NextClient]_vars

----------------------------------------------------------------------------
(* The client: the status of a campaign card *)

\* the campaigns the page lists: getCampaign of the ids 1..campaignCount
campaignIds == 1..campaignCount

\* const isActive = !campaign.ended && Number(campaign.deadline) > Date.now() / 1000
\* (the card shows Open and enables the Contribute button); the client's clock
\* is the chain's, in whole seconds
isActive(campaign) == ~campaign.ended /\ campaign.deadline > now

\* campaigns.filter((campaign) => !campaign.ended && Number(campaign.deadline) > now).length
activeCount ==
    Cardinality({id \in campaignIds :
                    ~getCampaign(id).ended /\ getCampaign(id).deadline > now})

----------------------------------------------------------------------------
(* PhantomPad.endCampaign against a ledger that reverts or calls back *)

\* the storage the ledger's confidentialTransfer sees when it is invoked, were
\* the writes made after the outbound call
Staged_AfterTransfer(campaign) == campaign

\* the storage the ledger's confidentialTransfer sees when it is invoked:
\* ended and totalRaised are written before the outbound call
Staged(campaign) == Settled(campaign)

\* a failure of the outbound call that is caught, so that the writes stay
AfterRevertedTransfer_Swallowed(campaign) == Staged(campaign)

\* paymentToken.confidentialTransfer is a plain external call: its revert
\* reverts the transaction, the writes made before it included
AfterRevertedTransfer(campaign) == campaign

\* the requires of endCampaign as a nested call evaluates them, on the record
\* in storage at that moment
endCampaignRevertOn(sender, campaign) ==
    IF ~(campaign.creator # ZeroAddress) THEN "Campaign not found"
    ELSE IF ~IsCreator(sender, campaign) THEN "Only creator"
    ELSE IF ~(~campaign.ended) THEN "Campaign already ended"
    ELSE NoError

\* endCampaign whose outbound call runs a whole nested endCampaign of the same
\* campaign, which pays first, before the outer call pays
endCampaignNested(sender, campaignId) ==
    LET campaign == campaigns[campaignId]
        payout == Payout(campaign)
        first == Transferred(Pad, payout.val)
        afterFirst == Move(Pad, sender, first)
        second == IF afterFirst[Pad] >= payout.val THEN payout.val ELSE 0
    IN  /\ campaigns' = [campaigns EXCEPT ![campaignId] = Settled(campaign)]
        /\ acl' = AclAfterPayoutGrant(payout, sender)
        /\ balances' = IF sender = Pad THEN balances
                       ELSE [afterFirst EXCEPT ![Pad] = @ - second,
                                               ![sender] = @ + second]
        /\ events' = events \o
               << Event("CampaignEnded", campaignId, "", 0, 0, sender,
                        LedgerTransferred(payout, first)),
                  Event("CampaignEnded", campaignId, "", 0, 0, sender,
                        LedgerTransferred(payout, second)) >>
        /\ UNCHANGED <<campaignCount, contributions>>

\* who can be msg.sender of a call made while the ledger runs: the ledger
\* itself, or an account the ledger calls into
Reentrants == Users \cup {Token}

\* endCampaign passes its requires and the ledger's transfer reverts
EndCampaignTransferReverts ==
    \E sender \in Users, campaignId \in TriedIds :
        /\ endCampaignRevert(sender, campaignId) = NoError
        /\ campaigns' = [campaigns EXCEPT
               ![campaignId] = AfterRevertedTransfer(campaigns[campaignId])]
        /\ lastCall' = Call("endCampaign", "transfer reverted", 0, NoHandle)
        /\ UNCHANGED <<campaignCount, contributions, acl, events, balances,
                       nextInput, now, raw>>

\* endCampaign passes its requires and the ledger's transfer calls
\* endCampaign(campaignId) again, as `re`, before it returns
EndCampaignReentered ==
    \E sender \in Users, campaignId \in TriedIds, re \in Reentrants :
        LET inner == endCampaignRevertOn(re, Staged(campaigns[campaignId]))
        IN  /\ endCampaignRevert(sender, campaignId) = NoError
            /\ Len(events) < MaxEvents
            /\ IF inner # NoError
               THEN endCampaign(sender, campaignId)
               ELSE endCampaignNested(sender, campaignId)
            /\ lastCall' = [Call("endCampaign", NoError, 0,
                                 events'[Len(events')].handle)
                               EXCEPT !.inner = inner]
            /\ UNCHANGED <<nextInput, now, raw>>

NextUntrustedLedger ==
    \/ Next
    \/ EndCampaignTransferReverts
    \/ EndCampaignReentered

SpecUntrustedLedger == Init /\ [][NextUntrustedLedger]_vars

----------------------------------------------------------------------------
(* Vocabulary of the properties *)

\* what an authorized viewer decrypts from a ciphertext
Plain(h) == h.val

Exists(id) == campaigns[id].creator # ZeroAddress

\* the sum, as an unbounded integer, of the amounts of the first n notifications
\* that are contributions of an account of `who` to campaign id
RECURSIVE Accepted(_, _, _)
Accepted(id, who, n) ==
    IF n = 0 THEN 0
    ELSE Accepted(id, who, n - 1)
         + (IF /\ events[n].kind = "Contributed"
               /\ events[n].campaignId = id
               /\ events[n].account \in who
            THEN Plain(events[n].handle) ELSE 0)

\* the number of notifications of a kind about campaign id
Count(kind, id) ==
    Cardinality({n \in 1 .. Len(events) :
                    events[n].kind = kind /\ events[n].campaignId = id})

\* the call that just returned
Returned(op) == lastCall.op = op /\ lastCall.err = NoError
Failed(op, err) == lastCall.op = op /\ lastCall.err = err

\* the latest notification
Latest == events[Len(events)]

----------------------------------------------------------------------------
(* C1..C10 *)

\* C1: for every campaign that is not ended, the decrypted totalRaised is the sum
\* of the amounts of all accepted contributions to it, and each contributor's
\* decrypted entry is the sum of that contributor's own accepted amounts.
C1_TotalsAreSums ==
    \A id \in Ids :
        (Exists(id) /\ ~campaigns[id].ended) =>
            /\ Plain(campaigns[id].totalRaised) = Accepted(id, Users, Len(events))
            /\ \A u \in Users :
                   Plain(contributions[id][u]) = Accepted(id, {u}, Len(events))

\* two contributions were accepted for a campaign still open for settlement, and
\* one contributor's entry holds more than a single amount
C1_Witness ==
    \E id \in Ids, u \in Users :
        /\ Exists(id) /\ ~campaigns[id].ended
        /\ Count("Contributed", id) >= 2
        /\ Plain(contributions[id][u]) > MaxAmount
        /\ Plain(campaigns[id].totalRaised) > MaxAmount

\* C2: a successful endCampaign by the creator raises the creator's ledger
\* balance by the decrypted totalRaised held before the call, lowers the engine's
\* balance by the same amount, sets ended and leaves totalRaised at zero.
C2_PayoutIsTotal ==
    [][ (lastCall'.op = "endCampaign" /\ lastCall'.err = NoError) =>
            LET id == events'[Len(events')].campaignId
                who == events'[Len(events')].account
                total == Plain(campaigns[id].totalRaised)
            IN  /\ who = campaigns[id].creator
                /\ balances'[who] = balances[who] + total
                /\ balances'[Pad] = balances[Pad] - total
                /\ campaigns'[id].ended
                /\ Plain(campaigns'[id].totalRaised) = 0 ]_vars

\* a settlement just paid out a total that is not zero
C2_Witness ==
    /\ Returned("endCampaign")
    /\ Plain(lastCall.retHandle) > 0
    /\ balances[Latest.account] >= Plain(lastCall.retHandle)
    /\ campaigns[Latest.campaignId].ended

\* C3 as stated: endCampaign succeeds at most once per id, and every endCampaign
\* call on an ended campaign, whoever makes it, fails with AlreadyEndedError.
C3_AnyCallerAlreadyEnded ==
    \A id \in Ids :
        /\ Count("CampaignEnded", id) <= 1
        /\ campaigns[id].ended =>
               \A sender \in Users :
                   endCampaignRevert(sender, id) = "Campaign already ended"

\* C3 amended: endCampaign succeeds at most once per id; on an ended campaign the
\* creator's call fails with AlreadyEndedError and any other caller's with
\* AuthorizationError; a failed endCampaign moves no balance and changes no
\* engine state.
C3_EndedBlocksSettlement ==
    /\ [](\A id \in Ids :
            /\ Count("CampaignEnded", id) <= 1
            /\ campaigns[id].ended =>
                   \A sender \in Users :
                       endCampaignRevert(sender, id) =
                           IF sender = campaigns[id].creator
                           THEN "Campaign already ended" ELSE "Only creator")
    /\ [][ /\ (lastCall'.op = "endCampaign" /\ lastCall'.err # NoError) =>
                  UNCHANGED <<engine, balances>>
           /\ (lastCall'.op = "endCampaign" /\ lastCall'.err = NoError) =>
                  ~campaigns[events'[Len(events')].campaignId].ended ]_vars

\* the creator just tried to settle a campaign a second time
C3_Witness ==
    /\ Failed("endCampaign", "Campaign already ended")
    /\ \E id \in Ids : campaigns[id].ended /\ Count("CampaignEnded", id) = 1

\* C4: for every existing campaign and every caller other than its creator,
\* endCampaign fails with AuthorizationError, and the failed call leaves the
\* campaign records, the contribution entries and the ledger balances unchanged.
C4_OnlyCreatorEnds ==
    /\ [](\A id \in Ids, sender \in Users \cup {Pad, Token, ZeroAddress} :
            (Exists(id) /\ sender # campaigns[id].creator) =>
                endCampaignRevert(sender, id) = "Only creator")
    /\ [][ (lastCall'.op = "endCampaign" /\ lastCall'.err = "Only creator") =>
               UNCHANGED <<engine, balances>> ]_vars

\* somebody else than the creator just tried to settle a funded, open campaign
C4_Witness ==
    /\ Failed("endCampaign", "Only creator")
    /\ \E id \in Ids :
           Exists(id) /\ ~campaigns[id].ended /\ Plain(campaigns[id].totalRaised) > 0

\* C5 as stated: a contribution to a campaign whose deadline has passed is
\* rejected with ExpiredError, and one at the deadline of a campaign that is not
\* ended is accepted.
C5_ExpiredAlwaysExpiredError ==
    \A id \in Ids :
        /\ (Exists(id) /\ now > campaigns[id].deadline) =>
               onConfidentialTransferReceivedRevert(Token, id) = "Campaign expired"
        /\ (Exists(id) /\ ~campaigns[id].ended /\ now = campaigns[id].deadline) =>
               onConfidentialTransferReceivedRevert(Token, id) = NoError

\* C5 amended: a contribution to a campaign that is not ended and whose deadline
\* has passed is rejected with ExpiredError (an ended one with AlreadyEndedError),
\* the rejection leaves totalRaised, every contribution entry and every ledger
\* balance as they were, and a contribution at the deadline of a campaign that
\* is not ended is accepted.
C5_ExpiredRejected ==
    /\ [](\A id \in Ids :
            /\ (Exists(id) /\ ~campaigns[id].ended /\ now > campaigns[id].deadline) =>
                   onConfidentialTransferReceivedRevert(Token, id) = "Campaign expired"
            /\ (Exists(id) /\ campaigns[id].ended /\ now > campaigns[id].deadline) =>
                   onConfidentialTransferReceivedRevert(Token, id) = "Campaign already ended"
            /\ (Exists(id) /\ ~campaigns[id].ended /\ now = campaigns[id].deadline) =>
                   onConfidentialTransferReceivedRevert(Token, id) = NoError)
    /\ [][ (lastCall'.op = "confidentialTransferAndCall"
            /\ lastCall'.err = "Campaign expired") =>
               UNCHANGED <<engine, balances>> ]_vars

\* a transfer to a campaign past its deadline was just rejected, after one made
\* no later than the deadline had been accepted
C5_Witness ==
    /\ Failed("confidentialTransferAndCall", "Campaign expired")
    /\ \E id \in Ids :
           /\ Exists(id) /\ ~campaigns[id].ended /\ now > campaigns[id].deadline
           /\ Count("Contributed", id) >= 1

\* C6: a contribution to an ended campaign is rejected with AlreadyEndedError,
\* and the rejection changes neither totalRaised, nor a contribution entry, nor
\* a ledger balance.
C6_EndedRejectsContribution ==
    /\ [](\A id \in Ids :
            campaigns[id].ended =>
                onConfidentialTransferReceivedRevert(Token, id) = "Campaign already ended")
    /\ [][ (lastCall'.op = "confidentialTransferAndCall"
            /\ lastCall'.err = "Campaign already ended") =>
               UNCHANGED <<engine, balances>> ]_vars

\* a funded user's transfer to a settled campaign was just rejected
C6_Witness ==
    /\ Failed("confidentialTransferAndCall", "Campaign already ended")
    /\ \E id \in Ids : campaigns[id].ended
    /\ \E u \in Users : balances[u] >= 1

\* C7: the callback called by anyone but the ledger fixed at construction fails
\* with AuthorizationError, whatever the attached data, and credits nothing.
C7_OnlyLedgerCallsBack ==
    /\ [](\A sender \in Users \cup {Pad, ZeroAddress}, data \in Datas :
            onConfidentialTransferReceivedRevert(sender, data) = "Unsupported token")
    /\ [][ lastCall'.op = "onConfidentialTransferReceived" =>
               /\ lastCall'.err = "Unsupported token"
               /\ UNCHANGED <<engine, balances>> ]_vars

\* a user just called the callback while a campaign was accepting contributions
C7_Witness ==
    /\ Failed("onConfidentialTransferReceived", "Unsupported token")
    /\ \E id \in Ids : onConfidentialTransferReceivedRevert(Token, id) = NoError

\* C8: a callback from the ledger for an id without a campaign record, id 0 and
\* every id above campaignCount among them, fails with NotFoundError and creates
\* no campaign record and no contribution entry.
C8_UnknownIdRejected ==
    /\ [](\A id \in Ids :
            (~Exists(id) \/ id = 0 \/ id > campaignCount) =>
                onConfidentialTransferReceivedRevert(Token, id) = "Campaign not found")
    /\ [][ (lastCall'.op = "confidentialTransferAndCall"
            /\ lastCall'.err = "Campaign not found") =>
               UNCHANGED <<engine, balances>> ]_vars

\* a transfer naming an unknown id was just rejected while a campaign existed
C8_Witness ==
    /\ Failed("confidentialTransferAndCall", "Campaign not found")
    /\ campaignCount >= 1

\* C9: the k-th successful createCampaign returns k, an id that held no record
\* before, and campaignCount equals k afterwards.
C9_IdsAreSequential ==
    [][ (lastCall'.op = "createCampaign" /\ lastCall'.err = NoError) =>
            LET id == lastCall'.retId
            IN  /\ id = campaignCount + 1
                /\ campaignCount' = id
                /\ id \in Ids /\ ~Exists(id)
                /\ campaigns'[id].creator # ZeroAddress
                /\ events'[Len(events')].kind = "CampaignCreated"
                /\ events'[Len(events')].campaignId = id
                /\ Cardinality({n \in 1 .. Len(events') :
                                   events'[n].kind = "CampaignCreated"}) = id ]_vars

\* the second creation just returned
C9_Witness == Returned("createCampaign") /\ lastCall.retId = 2 /\ campaignCount = 2

\* C10: createCampaign with an empty name, a zero target or a deadline not after
\* the current time fails with ValidationError, and the failed call leaves
\* campaignCount, the campaign records and the notification log unchanged.
C10_CreationValidated ==
    /\ [](\A name \in Names, target \in Targets, deadline \in 0 .. (MaxTime + 1) :
            (name = "" \/ target = 0 \/ deadline <= now) =>
                createCampaignRevert(name, target, deadline) \in
                    {"Name required", "Target required", "Deadline must be in the future"})
    /\ [][ (lastCall'.op = "createCampaign" /\ lastCall'.err # NoError) =>
               UNCHANGED <<engine, balances>> ]_vars

\* a creation whose deadline is not in the future was just rejected, at a time
\* later than the deployment
C10_Witness ==
    /\ Failed("createCampaign", "Deadline must be in the future")
    /\ now > 0 /\ campaignCount >= 1

----------------------------------------------------------------------------
(* C11..C20 *)

\* C11: for every id and every time, isCampaignActive(id) is true exactly when
\* the campaign's creator is not the zero address, ended is false and the current
\* time is at most the deadline.
C11_ActiveIffOpen ==
    \A id \in Ids :
        isCampaignActive(id) <=>
            (Exists(id) /\ campaigns[id].ended = FALSE /\ ~(now > campaigns[id].deadline))

\* at one moment: a campaign exactly at its deadline (active), a settled one
\* (inactive) and ids without a record (inactive)
C11_Witness ==
    \E a, b \in Ids :
        /\ Exists(a) /\ ~campaigns[a].ended /\ now = campaigns[a].deadline
        /\ isCampaignActive(a)
        /\ Exists(b) /\ campaigns[b].ended /\ ~isCampaignActive(b)
        /\ ~isCampaignActive(0) /\ ~isCampaignActive(campaignCount + 1)

\* C12: a campaign goes from nonexistent to active to ended and stays ended: a
\* record never disappears, a new record starts with ended false, and the flag
\* turns true only by a successful endCampaign and never turns false again.
C12_EndedIsTerminal ==
    [][ \A id \in Ids :
            /\ campaigns[id].ended => campaigns'[id].ended
            /\ Exists(id) => campaigns'[id].creator # ZeroAddress
            /\ campaigns'[id].ended => campaigns'[id].creator # ZeroAddress
            /\ (~Exists(id) /\ campaigns'[id].creator # ZeroAddress) => ~campaigns'[id].ended
            /\ (~campaigns[id].ended /\ campaigns'[id].ended) =>
                   /\ Exists(id)
                   /\ lastCall'.op = "endCampaign" /\ lastCall'.err = NoError
                   /\ events'[Len(events')].campaignId = id ]_vars

\* a campaign was settled and another mutating call succeeded afterwards
C12_Witness ==
    \E n \in 1 .. Len(events) :
        /\ events[n].kind = "CampaignEnded"
        /\ n < Len(events)
        /\ campaigns[events[n].campaignId].ended

\* C13: while a campaign is not ended its decrypted totalRaised never decreases
\* and changes only by the amount of an accepted contribution to it; the
\* successful endCampaign resets it to zero, and it is zero in every state in
\* which the campaign is ended.
C13_TotalMonotoneThenZero ==
    [][ \A id \in Ids :
            Exists(id) =>
                /\ (~campaigns[id].ended /\ ~campaigns'[id].ended) =>
                       /\ Plain(campaigns'[id].totalRaised) >= Plain(campaigns[id].totalRaised)
                       /\ campaigns'[id].totalRaised # campaigns[id].totalRaised =>
                              /\ lastCall'.op = "confidentialTransferAndCall"
                              /\ lastCall'.err = NoError
                              /\ events'[Len(events')].campaignId = id
                              /\ Plain(campaigns'[id].totalRaised) =
                                     Plain(campaigns[id].totalRaised)
                                     + Plain(events'[Len(events')].handle)
                /\ campaigns'[id].ended => Plain(campaigns'[id].totalRaised) = 0
                /\ (~campaigns[id].ended /\ campaigns'[id].ended) =>
                       (lastCall'.op = "endCampaign" /\ lastCall'.err = NoError) ]_vars

\* a campaign that had raised funds is settled, and time went on after that
C13_Witness ==
    \E id \in Ids :
        /\ campaigns[id].ended
        /\ Accepted(id, Users, Len(events)) > 0
        /\ Plain(campaigns[id].totalRaised) = 0
        /\ lastCall.op = "tick"

\* C14: every contribution entry decrypts, in every state and also after the
\* campaign was settled, to the sum of that contributor's accepted amounts for
\* that campaign, and it never decreases from one state to the next.
C14_EntriesPersist ==
    /\ [](\A id \in Ids, u \in Users :
            Plain(contributions[id][u]) = Accepted(id, {u}, Len(events)))
    /\ [][ \A id \in Ids, u \in Users :
               /\ Plain(contributions'[id][u]) >= Plain(contributions[id][u])
               /\ (lastCall'.op = "endCampaign") =>
                      contributions'[id][u] = contributions[id][u] ]_vars

\* a settled campaign still shows what a contributor gave
C14_Witness ==
    \E id \in Ids, u \in Users :
        /\ campaigns[id].ended
        /\ FHE_isInitialized(contributions[id][u])
        /\ Plain(contributions[id][u]) > 0

\* C15: whatever the time and the total, the creator's endCampaign on an
\* existing campaign that is not ended passes every check of endCampaign.
C15_SettlementNotGated ==
    \A id \in Ids :
        (Exists(id) /\ ~campaigns[id].ended) =>
            endCampaignRevert(campaigns[id].creator, id) = NoError

\* a campaign without any contribution was just settled before its deadline
C15_Witness ==
    /\ Returned("endCampaign")
    /\ Count("Contributed", Latest.campaignId) = 0
    /\ now < campaigns[Latest.campaignId].deadline

\* who holds a decrypt grant on a ciphertext
Allowed(h, viewer) == <<h.id, viewer>> \in acl

C19_ContributionGrants ==
    [][ (lastCall'.op = "confidentialTransferAndCall" /\ lastCall'.err = NoError) =>
            LET id == events'[Len(events')].campaignId
                from == events'[Len(events')].account
                total == campaigns'[id].totalRaised
                entry == contributions'[id][from]
            IN  /\ total # campaigns[id].totalRaised
                /\ entry # contributions[id][from]
                /\ {<<total.id, Pad>>, <<total.id, campaigns[id].creator>>,
                    <<total.id, from>>} \subseteq acl'
                /\ {<<entry.id, Pad>>, <<entry.id, from>>} \subseteq acl' ]_vars

\* a second contribution to a campaign was just accepted, from somebody who is
\* not its creator
C19_Witness ==
    /\ Returned("confidentialTransferAndCall")
    /\ Latest.account # campaigns[Latest.campaignId].creator
    /\ Count("Contributed", Latest.campaignId) >= 2

\* C20: a decrypt grant, once made, is there in every later state.
C20_GrantsOnlyGrow ==
    [][ acl \subseteq acl' ]_vars

\* the contributors of a campaign hold grants on its total, and it was settled
C20_Witness ==
    /\ Returned("endCampaign")
    /\ \E u \in Users :
           /\ u # Latest.account
           /\ <<Tail(Latest.handle.id), u>> \in acl

\* C16: a call of endCampaign(id) made while the payout transfer of
\* endCampaign(id) runs finds the campaign ended and its total reset, and is
\* turned away: with "Campaign already ended" when the creator makes it, with
\* "Only creator" when anybody else does; a campaign is paid out at most once.
C16_ReentryTurnedAway ==
    /\ [](/\ \A id \in 1..campaignCount : Count("CampaignEnded", id) <= 1
          /\ \A id \in 1..campaignCount : \A re \in Reentrants \cup {Pad} :
                 /\ Staged(campaigns[id]).ended
                 /\ Plain(Staged(campaigns[id]).totalRaised) = 0
                 /\ endCampaignRevertOn(re, Staged(campaigns[id])) =
                        IF re = campaigns[id].creator
                        THEN "Campaign already ended" ELSE "Only creator"
          /\ lastCall.inner \in {NoCall, "Campaign already ended", "Only creator"})
    /\ [][ lastCall'.inner # NoCall =>
               LET id == events'[Len(events')].campaignId
               IN  /\ Len(events') = Len(events) + 1
                   /\ balances[Pad] - balances'[Pad] =
                          Transferred(Pad, Plain(campaigns[id].totalRaised))
                   /\ campaigns'[id].ended
                   /\ Plain(campaigns'[id].totalRaised) = 0 ]_vars

\* C16 as stated: every call of endCampaign(id) made while the payout transfer
\* runs fails with "Campaign already ended"
C16_ReentryAlwaysAlreadyEnded ==
    lastCall.inner # NoCall => lastCall.inner = "Campaign already ended"

\* a campaign with money in it was settled while its creator called endCampaign
\* again from inside the payout transfer
C16_Witness ==
    /\ Returned("endCampaign")
    /\ lastCall.inner = "Campaign already ended"
    /\ Plain(lastCall.retHandle) > 0
    /\ Count("CampaignEnded", Latest.campaignId) = 1

\* C17: a call that fails, a payout transfer that reverts included, leaves the
\* counter, the campaigns, the contributions, the grants, the log and the
\* balances as they were.
C17_FailedCallsChangeNothing ==
    [][ lastCall'.err # NoError => UNCHANGED <<engine, balances>> ]_vars

\* the only campaign, open and with money in it, after its payout transfer
\* reverted
C17_Witness ==
    /\ Failed("endCampaign", "transfer reverted")
    /\ campaignCount = 1
    /\ ~campaigns[1].ended
    /\ Plain(campaigns[1].totalRaised) > 0

----------------------------------------------------------------------------
(* C21..C30 *)

\* the positions of the log that hold a notification of this kind
Positions(kind) == {n \in 1 .. Len(events) : events[n].kind = kind}

MutatingOps == {"createCampaign", "confidentialTransferAndCall",
                "onConfidentialTransferReceived", "endCampaign"}

\* C21: the log only grows at its end, by exactly one notification for a
\* mutating call that returns and by none for any other step; there are as many
\* CampaignCreated notifications as campaignCount, at most one CampaignEnded per
\* id, and every Contributed of an id comes after the id's CampaignCreated and
\* before its CampaignEnded.
C21_LogIsAuditTrail ==
    /\ [](/\ Cardinality(Positions("CampaignCreated")) = campaignCount
          /\ \A id \in 1..campaignCount : Count("CampaignCreated", id) = 1
          /\ \A id \in Ids : Count("CampaignEnded", id) <= 1
          /\ \A n \in Positions("Contributed") :
                /\ \E c \in Positions("CampaignCreated") :
                      c < n /\ events[c].campaignId = events[n].campaignId
                /\ \A e \in Positions("CampaignEnded") :
                      events[e].campaignId = events[n].campaignId => n < e)
    /\ [][ /\ Len(events') >= Len(events)
           /\ SubSeq(events', 1, Len(events)) = events
           /\ Len(events') - Len(events) =
                 IF lastCall'.op \in MutatingOps /\ lastCall'.err = NoError
                 THEN 1 ELSE 0
           /\ (lastCall'.op = "createCampaign" /\ lastCall'.err = NoError) =>
                 events'[Len(events')].kind = "CampaignCreated"
           /\ (lastCall'.op = "confidentialTransferAndCall" /\ lastCall'.err = NoError) =>
                 events'[Len(events')].kind = "Contributed"
           /\ (lastCall'.op = "endCampaign" /\ lastCall'.err = NoError) =>
                 events'[Len(events')].kind = "CampaignEnded" ]_vars

\* a log of three notifications: a campaign was created, received a
\* contribution and was ended
C21_Witness ==
    /\ Len(events) = 3
    /\ events[1].kind = "CampaignCreated"
    /\ events[2].kind = "Contributed"
    /\ events[3].kind = "CampaignEnded"
    /\ lastCall.err # NoError

\* C22: the payout that endCampaign returns and puts in CampaignEnded is the
\* handle the ledger's transfer returned for the amount it moved, which is not
\* the handle of totalRaised read before the transfer.
C22_PayoutIsLedgerHandle ==
    [][ (lastCall'.op = "endCampaign" /\ lastCall'.err = NoError) =>
            LET id == events'[Len(events')].campaignId
                snapshot == campaigns[id].totalRaised
                transferred == LedgerTransferred(snapshot,
                                   balances[Pad] - balances'[Pad])
            IN  /\ transferred # snapshot
                /\ events'[Len(events')].handle = transferred
                /\ lastCall'.retHandle = transferred ]_vars

\* a campaign that had received money was just settled
C22_Witness ==
    /\ Returned("endCampaign")
    /\ Latest.kind = "CampaignEnded"
    /\ Plain(Latest.handle) > 0
    /\ Count("Contributed", Latest.campaignId) >= 1

\* C23: a callback that returns, returns an encrypted true that the ledger and
\* the contract may decrypt; a callback that rejects returns nothing, it fails.
C23_AcceptedIsTrue ==
    lastCall.op \in {"confidentialTransferAndCall", "onConfidentialTransferReceived"} =>
        IF lastCall.err = NoError
        THEN /\ lastCall.retHandle = FHE_asEbool(TRUE)
             /\ Plain(lastCall.retHandle) = 1
             /\ Allowed(lastCall.retHandle, Token)
             /\ Allowed(lastCall.retHandle, Pad)
        ELSE ~FHE_isInitialized(lastCall.retHandle)

\* the ledger's callback for a contribution just returned
C23_Witness ==
    /\ Returned("confidentialTransferAndCall")
    /\ Latest.kind = "Contributed"
    /\ FHE_isInitialized(lastCall.retHandle)

Views == {"getCampaign", "contributionOf", "isCampaignActive", "treasuryBalance"}

\* C24: a view never fails and changes nothing; getCampaign of an id without a
\* campaign answers the default record, whose creator is the zero address, and
\* contributionOf answers the uninitialized handle exactly for an account with
\* no accepted contribution to the campaign.
C24_ViewsOnAbsentKeys ==
    /\ [](/\ \A id \in Ids \ (1..campaignCount) :
                /\ getCampaign(id) = NoCampaign
                /\ getCampaign(id).creator = ZeroAddress
          /\ \A id \in Ids : \A user \in Users :
                FHE_isInitialized(contributionOf(id, user)) <=>
                    \E n \in Positions("Contributed") :
                        events[n].campaignId = id /\ events[n].account = user)
    /\ [][ lastCall'.op \in Views =>
               /\ lastCall'.err = NoError
               /\ UNCHANGED <<engine, balances, nextInput, now>> ]_vars

\* contributionOf just returned in a state where it answers the uninitialized
\* handle for one account of a campaign and an entry for another
C24_Witness ==
    /\ Returned("contributionOf")
    /\ \E id \in 1..campaignCount : \E user, other \in Users :
          /\ ~FHE_isInitialized(contributionOf(id, user))
          /\ FHE_isInitialized(contributionOf(id, other))
    /\ ~FHE_isInitialized(contributionOf(0, "alice"))
    /\ getCampaign(campaignCount + 1).creator = ZeroAddress

\* C25: the campaigns that exist are exactly those of the ids 1..campaignCount;
\* id 0 is never one of them, and a campaign that exists keeps existing.
C25_ExistingIds ==
    /\ [](/\ \A id \in Ids : Exists(id) <=> id \in 1..campaignCount
          /\ ~Exists(0))
    /\ [][ /\ campaignCount' >= campaignCount
           /\ \A id \in Ids :
                 Exists(id) => campaigns'[id].creator # ZeroAddress ]_vars

\* two campaigns exist, and the first of them was ended
C25_Witness ==
    /\ campaignCount = 2
    /\ campaigns[1].ended
    /\ Exists(1) /\ Exists(2) /\ ~Exists(3)

\* C26: the name, target handle, deadline and creator of a campaign are those
\* of its creation and no step changes them.
C26_CreationFieldsFrozen ==
    /\ [](\A c \in Positions("CampaignCreated") :
             LET campaign == campaigns[events[c].campaignId]
             IN  /\ campaign.name = events[c].name
                 /\ campaign.target = FHE_asEuint64(events[c].target)
                 /\ campaign.deadline = events[c].deadline
                 /\ campaign.creator = events[c].account)
    /\ [][ \A id \in 1..campaignCount :
              /\ campaigns'[id].name = campaigns[id].name
              /\ campaigns'[id].target = campaigns[id].target
              /\ campaigns'[id].deadline = campaigns[id].deadline
              /\ campaigns'[id].creator = campaigns[id].creator ]_vars

\* a campaign went through a contribution, the passing of its deadline and its
\* settlement
C26_Witness ==
    /\ Returned("endCampaign")
    /\ Count("Contributed", Latest.campaignId) = 1
    /\ campaigns[Latest.campaignId].deadline < now

\* the value of a string of decimal digits, digit by digit with its weight
Numeral(s) ==
    LET RECURSIVE Sum(_)
        Sum(i) == IF i = 0 THEN 0
                  ELSE Sum(i - 1) + DigitValue(s[i]) * 10 ^ (Len(s) - i)
    IN  Sum(Len(s))

\* the values v such that text is white space, then the digits of v, then
\* white space (none or one)
Denoted(text) ==
    { Numeral(SubSeq(text, seg[1], seg[2])) :
        seg \in { p \in (1..Len(text)) \X (1..Len(text)) :
                    /\ p[1] <= p[2]
                    /\ \A k \in 1..(p[1] - 1) : text[k] \in SpaceChars
                    /\ \A k \in (p[2] + 1)..Len(text) : text[k] \in SpaceChars
                    /\ \A k \in p[1]..p[2] : text[k] \in DigitChars } }

\* C27: parseUint64 returns v exactly for the texts that are, white space at the
\* ends apart, the decimal digits of a v in 1..UINT64_MAX, and throws for every
\* other text: zero, a larger value, a text that is not only digits.
C27_ParseAcceptsUint64 ==
    lastCall.op = "parseUint64" =>
        /\ Cardinality(Denoted(raw)) <= 1
        /\ \A v \in 1..UINT64_MAX :
              v \in Denoted(raw) <=> (lastCall.err = NoError /\ lastCall.retId = v)
        /\ lastCall.err = NoError => lastCall.retId \in 1..UINT64_MAX
        /\ Denoted(raw) \cap (1..UINT64_MAX) = {} => lastCall.err # NoError
        /\ 0 \in Denoted(raw) => lastCall.err = "Amount must be greater than zero."
        /\ (\E v \in Denoted(raw) : v > UINT64_MAX) =>
              lastCall.err = "Amount exceeds uint64 range."
        /\ Denoted(raw) = {} => lastCall.err = "Enter a whole number amount."

\* the field held the largest amount with a space before it, and it was parsed
C27_Witness ==
    /\ Returned("parseUint64")
    /\ lastCall.retId = UINT64_MAX
    /\ Len(raw) > 1
    /\ raw[1] \in SpaceChars

\* the total of the campaign after the callback accepted these amounts in turn
RECURSIVE TotalAfter(_, _)
TotalAfter(campaign, amounts) ==
    IF amounts = <<>> THEN campaign.totalRaised
    ELSE TotalAfter([campaign EXCEPT !.totalRaised = UpdatedTotal(campaign, Head(amounts))],
                    Tail(amounts))

\* the entry of `from` after the callback accepted these amounts from them in
\* turn: the first is added to the stored entry, the next ones to the entry the
\* previous one left, which is initialized
RECURSIVE EntryAfter(_, _, _)
EntryAfter(campaignId, from, amounts) ==
    IF Len(amounts) = 1 THEN UpdatedContribution(campaignId, from, amounts[1])
    ELSE FHE_add(EntryAfter(campaignId, from, SubSeq(amounts, 1, Len(amounts) - 1)),
                 amounts[Len(amounts)])

\* C28: for a campaign that takes contributions, amounts a then b leave the
\* same total and the same entry as a + b at once, and as b then a.
C28_SplitAndOrder ==
    \A id \in 1..campaignCount :
        isCampaignActive(id) =>
            \A a \in 1..Uint64Max : \A b \in a..(Uint64Max - a) :
                LET A == LedgerInput(nextInput, a)
                    B == LedgerInput(nextInput + 1, b)
                    AB == LedgerInput(nextInput, a + b)
                    atOnce == Plain(TotalAfter(campaigns[id], <<AB>>))
                IN  /\ Plain(TotalAfter(campaigns[id], <<A, B>>)) = atOnce
                    /\ Plain(TotalAfter(campaigns[id], <<B, A>>)) = atOnce
                    /\ \A from \in Users :
                          LET entryAtOnce == Plain(EntryAfter(id, from, <<AB>>))
                          IN  /\ Plain(EntryAfter(id, from, <<A, B>>)) = entryAtOnce
                              /\ Plain(EntryAfter(id, from, <<B, A>>)) = entryAtOnce

\* an open campaign took two contributions, one after the other
C28_Witness ==
    \E id \in 1..campaignCount :
        /\ isCampaignActive(id)
        /\ Count("Contributed", id) = 2
        /\ Plain(campaigns[id].totalRaised) = 2
        /\ Returned("confidentialTransferAndCall")

\* the sum of the decrypted totals of the campaigns 1..n
RECURSIVE SumOfTotals(_)
SumOfTotals(n) ==
    IF n = 0 THEN 0 ELSE SumOfTotals(n - 1) + Plain(campaigns[n].totalRaised)

C30_ErrorOrder ==
    /\ \A data \in Ids :
          /\ \A sender \in Users \cup {Pad} :
                onConfidentialTransferReceivedRevert(sender, data) = "Unsupported token"
          /\ onConfidentialTransferReceivedRevert(Token, data) =
                IF ~Exists(data) THEN "Campaign not found"
                ELSE IF campaigns[data].ended THEN "Campaign already ended"
                ELSE IF now > campaigns[data].deadline THEN "Campaign expired"
                ELSE NoError
    /\ \A id \in Ids : \A sender \in Users \cup {Pad, Token} :
          endCampaignRevert(sender, id) =
              IF ~Exists(id) THEN "Campaign not found"
              ELSE IF sender # campaigns[id].creator THEN "Only creator"
              ELSE IF campaigns[id].ended THEN "Campaign already ended"
              ELSE NoError
    /\ Failed("confidentialTransferAndCall", "Campaign expired") =>
          \E id \in 1..campaignCount :
              ~campaigns[id].ended /\ now > campaigns[id].deadline
    /\ Failed("endCampaign", "Campaign already ended") =>
          \E id \in 1..campaignCount : campaigns[id].ended

\* the only campaign is ended and past its deadline, and a contribution to it
\* was just turned away as already ended
C30_Witness ==
    /\ campaignCount = 1
    /\ campaigns[1].ended
    /\ now > campaigns[1].deadline
    /\ Failed("confidentialTransferAndCall", "Campaign already ended")

----------------------------------------------------------------------------
(* C31..C35 *)

\* C31: isCampaignActive(id) is true exactly when the callback of the ledger
\* for id would pass all its requires now.
C31_ActiveIffAccepting ==
    \A id \in Ids :
        isCampaignActive(id) <=> onConfidentialTransferReceivedRevert(Token, id) = NoError

\* a contribution was just accepted in the last second of a campaign, while
\* another id is not active
C31_Witness ==
    /\ Returned("confidentialTransferAndCall")
    /\ now = campaigns[Latest.campaignId].deadline
    /\ isCampaignActive(Latest.campaignId)
    /\ \E id \in Ids : ~isCampaignActive(id)

\* C32: an accepted contribution to a campaign, or its settlement, leaves the
\* record and the entries of every other campaign as they were; createCampaign
\* leaves every existing record and every entry as it was.
C32_CampaignsIsolated ==
    [][ /\ (/\ lastCall'.op \in {"confidentialTransferAndCall", "endCampaign"}
            /\ lastCall'.err = NoError) =>
               \A other \in Ids \ {events'[Len(events')].campaignId} :
                   /\ campaigns'[other] = campaigns[other]
                   /\ contributions'[other] = contributions[other]
        /\ (lastCall'.op = "createCampaign" /\ lastCall'.err = NoError) =>
               /\ \A id \in 1..campaignCount : campaigns'[id] = campaigns[id]
               /\ contributions' = contributions ]_vars

\* a contribution was just accepted for one of two campaigns
C32_Witness ==
    /\ campaignCount = 2
    /\ Returned("confidentialTransferAndCall")
    /\ \E other \in 1..2 :
          /\ other # Latest.campaignId
          /\ \A user \in Users : ~FHE_isInitialized(contributions[other][user])

Viewers == Holders \cup {Token}

\* the accounts that may decrypt the ciphertext
ViewersOf(h) == {viewer \in Viewers : Allowed(h, viewer)}

\* every contribution accepted for the campaign up to the latest one of
\* `user` came from `user`: the entry of `user` was computed from the same
\* operands as the total and has the total's handle
SoleContributorSoFar(id, user) ==
    \E last \in Positions("Contributed") :
        /\ events[last].campaignId = id /\ events[last].account = user
        /\ \A n \in Positions("Contributed") :
              events[n].campaignId = id =>
                  IF n <= last THEN events[n].account = user
                  ELSE events[n].account # user

RECURSIVE Supply(_)
Supply(holders) ==
    IF holders = {} THEN 0
    ELSE LET h == CHOOSE x \in holders : TRUE
         IN  balances[h] + Supply(holders \ {h})

\* C34: with the whole 64-bit supply in circulation, the unbounded sum of the
\* amounts accepted for a campaign, and of those of each contributor, stays
\* within 64 bits: no addition of the callback wraps, every entry is the true
\* sum of its contributor's amounts and the total of an open campaign the true
\* sum of all of them.
C34_NoWrapAround ==
    /\ Supply(Holders) = Uint64Max
    /\ \A id \in 1..campaignCount :
          /\ Accepted(id, Users, Len(events)) <= treasuryBalance + Supply(Users)
          /\ Accepted(id, Users, Len(events)) <= Uint64Max
          /\ ~campaigns[id].ended =>
                /\ Plain(campaigns[id].totalRaised) = Accepted(id, Users, Len(events))
                /\ Plain(campaigns[id].totalRaised) <= treasuryBalance
          /\ \A user \in Users :
                /\ Accepted(id, {user}, Len(events)) <= Uint64Max
                /\ Plain(contributions[id][user]) = Accepted(id, {user}, Len(events))

\* a campaign holds the whole supply, contributed by two accounts
C34_Witness ==
    \E id \in 1..campaignCount :
        /\ Plain(campaigns[id].totalRaised) = Uint64Max
        /\ \A user \in Users : Plain(contributions[id][user]) > 0
        /\ Supply(Users) = 0

\* C35: the page shows a campaign as open, and lets one contribute to it,
\* exactly when the contract's isCampaignActive is true for it, the second of
\* the deadline included; the count of active campaigns agrees too.
C35_UiAgreesWithContract ==
    /\ \A id \in campaignIds : isActive(getCampaign(id)) <=> isCampaignActive(id)
    /\ activeCount = Cardinality({id \in campaignIds : isCampaignActive(id)})

====
